---- MODULE Spec2Model ----
(***************************************************************************)
(* A model of barcode-gen (src/main.py): the digit-space walkers loopstep  *)
(* and loop_round, the EAN13 constructor (zero-padding, checksum, bar      *)
(* encoding) and the EAN13.generate collision-free generator.              *)
(*                                                                         *)
(* Python strings are modelled as sequences of one-character strings, so   *)
(* '041' is <<"0","4","1">>.  A Code (a string of bars) is a sequence of   *)
(* "0" (white) and "1" (black).                                            *)
(***************************************************************************)
EXTENDS Integers, Sequences, FiniteSets, TLC

VARIABLES
    \* ---- loop_round(start, digits, stop, include_last) and its consumer
    lr_digits,      \* the alphabet handed to loop_round
    lr_start,       \* the start string
    lr_stop,        \* the stop argument (<< >> stands for None / '')
    lr_last,        \* the include_last argument
    lr,             \* the state of the loop_round generator
    out,            \* what the consumer's for-loop has received so far
    lpc,            \* consumer: "iter" while iterating, "done" after StopIteration
    \* ---- EAN13(id)
    input,          \* str(id) of the constructor's argument
    ean,            \* the constructed object, or the raised error
    epc,            \* "call" before the constructor ran, "done" after
    \* ---- EAN13.generate(prefix, database)
    prefix,         \* the prefix argument
    database,       \* the database argument: the ids of the EAN13 objects in it
    draw,           \* what rd.randint(10, size=to_draw) returned, as a string
    result,         \* what generate returned or raised
    gpc,            \* "call" before generate ran, then "returned" or "raised"
    \* ---- loopstep(start, digits) and its consumer
    ls_digits,      \* the alphabet handed to loopstep
    ls_start,       \* the start string
    ls,             \* the state of the loopstep generator
    ls_n,           \* how many values next(g) has yielded so far
    ls_val,         \* the value yielded last
    \* ---- a caller that generates and inserts, again and again
    db0,            \* the database before the first call
    issued          \* the ids of the identifiers returned so far, in order

vars == <<lr_digits, lr_start, lr_stop, lr_last, lr, out, lpc,
          input, ean, epc, prefix, database, draw, result, gpc,
          ls_digits, ls_start, ls, ls_n, ls_val, db0, issued>>

stepVars  == <<ls_digits, ls_start, ls, ls_n, ls_val>>
batchVars == <<db0, issued>>

loopVars == <<lr_digits, lr_start, lr_stop, lr_last, lr, out, lpc>>
eanVars  == <<input, ean, epc>>
genVars  == <<prefix, database, draw, result, gpc>>

-----------------------------------------------------------------------------
(* Strings *)

\* The default alphabet of loopstep and loop_round, and the one generate passes.
Decimal == <<"0", "1", "2", "3", "4", "5", "6", "7", "8", "9">>

\* The characters of a string, as a set.
Chars(s) == {s[i] : i \in 1..Len(s)}

\* c * n for a one-character string c.
Repeat(c, n) == [i \in 1..n |-> c]

\* All strings of length n over the characters of an alphabet.
StringsOf(alphabet, n) == [1..n -> Chars(alphabet)]

-----------------------------------------------------------------------------
(* loopstep: a recursive generator.  Its state is a record; LoopstepNext   *)
(* is one next() on it and returns the new state and the value yielded.    *)

\* No generator yet (the inner generator before the outer loop's first turn).
NoGen == [l |-> 0]

\* loopstep(start, digits) just created: nothing has run yet.
RECURSIVE loopstep(_)
loopstep(start) ==
    IF Len(start) = 1
    THEN [l |-> 1, start |-> start[1], g |-> 0, found |-> FALSE]
    ELSE [l |-> Len(start),
          end |-> Tail(start),
          fgen |-> loopstep(<<start[1]>>),
          started |-> FALSE,
          f |-> "",
          egen |-> NoGen,
          e |-> << >>]

\* A single-digit loop that does not wait for start: it yields from the
\* alphabet's first character on.
SingleFromFirst(gen, digits) ==
    LET g1 == IF gen.g < Len(digits) THEN gen.g + 1 ELSE 1
    IN  [gen |-> [gen EXCEPT !.g = g1, !.found = TRUE], val |-> <<digits[g1]>>]

\* The l == 1 branch: one turn of `while True` per call, until a yield.
\* g counts the items taken from iter(digits); at the end the iterator is
\* made anew and its first item taken.
RECURSIVE SingleNext(_, _)
SingleNext(gen, digits) ==
    LET g1 == IF gen.g < Len(digits) THEN gen.g + 1 ELSE 1
        d  == digits[g1]
    IN  IF gen.found
        THEN [gen |-> [gen EXCEPT !.g = g1], val |-> <<d>>]
        ELSE IF d = gen.start
             THEN [gen |-> [gen EXCEPT !.g = g1, !.found = TRUE], val |-> <<d>>]
             ELSE SingleNext([gen EXCEPT !.g = g1], digits)

\* An inner loop that is never left.
AllLastNever(e, digits) == FALSE

\* all(d == last for d in e), last = digits[-1:]
AllLast(e, digits) == \A i \in 1..Len(e) : <<e[i]>> = SubSeq(digits, Len(digits), Len(digits))

\* A loopstep that forgets `end = zero`: every inner cycle restarts from the
\* suffix of start.
EndKept(gen, digits) == gen.end

\* What `end` becomes once the inner loop is left: zero = digits[0] * (l - 1).
EndAfterBreak(gen, digits) == Repeat(digits[1], gen.l - 1)

\* One next() on a loopstep generator.
RECURSIVE LoopstepNext(_, _)
LoopstepNext(gen, digits) ==
    IF gen.l = 1
    THEN SingleNext(gen, digits)
    ELSE IF gen.started /\ ~AllLast(gen.e, digits)
         THEN \* the inner for-loop goes on
              LET r == LoopstepNext(gen.egen, digits)
              IN  [gen |-> [gen EXCEPT !.egen = r.gen, !.e = r.val],
                   val |-> <<gen.f>> \o r.val]
         ELSE \* the outer for-loop takes its next f and starts loopstep(end)
              LET end == IF gen.started THEN EndAfterBreak(gen, digits) ELSE gen.end
                  rf  == SingleNext(gen.fgen, digits)
                  re  == LoopstepNext(loopstep(end), digits)
              IN  [gen |-> [gen EXCEPT !.end = end, !.fgen = rf.gen,
                                       !.started = TRUE, !.f = rf.val[1],
                                       !.egen = re.gen, !.e = re.val],
                   val |-> rf.val \o re.val]

-----------------------------------------------------------------------------
(* loop_round: a generator over loopstep.                                  *)

\* A loop_round without `if not stop: stop = start`.
loop_round_no_default(start, stop, include_last) ==
    [stop |-> stop, include_last |-> include_last, g |-> loopstep(start),
     at |-> "first"]

\* loop_round(start, digits, stop, include_last) just created.  `if not
\* stop: stop = start` runs at the first next(); nothing reads stop before.
loop_round(start, stop, include_last) ==
    [stop |-> IF stop = << >> THEN start ELSE stop,
     include_last |-> include_last,
     g |-> loopstep(start),
     at |-> "first"]

\* One next() on a loop_round generator: the new state, whether it raised
\* StopIteration, and the value yielded otherwise.
LoopRoundNext(gen, digits) ==
    CASE gen.at = "first" ->
            LET r == LoopstepNext(gen.g, digits)
            IN  [gen |-> [gen EXCEPT !.g = r.gen, !.at = "loop"],
                 stopped |-> FALSE, val |-> r.val]
      [] gen.at = "loop" ->
            LET r == LoopstepNext(gen.g, digits)
            IN  IF r.val = gen.stop
                THEN IF gen.include_last
                     THEN [gen |-> [gen EXCEPT !.g = r.gen, !.at = "last"],
                           stopped |-> FALSE, val |-> r.val]
                     ELSE [gen |-> [gen EXCEPT !.g = r.gen, !.at = "end"],
                           stopped |-> TRUE, val |-> << >>]
                ELSE [gen |-> [gen EXCEPT !.g = r.gen],
                      stopped |-> FALSE, val |-> r.val]
      [] OTHER -> \* after the yield of include_last comes the break; a
                  \* finished generator raises StopIteration again
            [gen |-> [gen EXCEPT !.at = "end"], stopped |-> TRUE, val |-> << >>]

-----------------------------------------------------------------------------
(* Code and EAN13Data: the static tables. *)

\* int(c) for a decimal digit character; int() raises ValueError otherwise.
DigitValue == [c \in Chars(Decimal) |-> (CHOOSE i \in 1..10 : Decimal[i] = c) - 1]
IsDigit(c) == c \in DOMAIN DigitValue
IntOf(c) == DigitValue[c]

\* str(n) for 0 <= n <= 9.
StrOf(n) == <<Decimal[n + 1]>>

\* Code.flip
flip(code) == [i \in 1..Len(code) |-> IF code[i] = "0" THEN "1" ELSE "0"]

white == <<"0">>
black == <<"1">>

\* EAN13Data.length
length == 13

\* The run lengths of set A and of set B, per digit.
A_lengths ==
    [c \in Chars(Decimal) |->
        CASE c = "0" -> <<"3","2","1","1">> [] c = "1" -> <<"2","2","2","1">>
          [] c = "2" -> <<"2","1","2","2">> [] c = "3" -> <<"1","4","1","1">>
          [] c = "4" -> <<"1","1","3","2">> [] c = "5" -> <<"1","2","3","1">>
          [] c = "6" -> <<"1","1","1","4">> [] c = "7" -> <<"1","3","1","2">>
          [] c = "8" -> <<"1","2","1","3">> [] c = "9" -> <<"3","1","1","2">>]

B_lengths ==
    [c \in Chars(Decimal) |->
        CASE c = "0" -> <<"1","1","2","3">> [] c = "1" -> <<"1","2","2","2">>
          [] c = "2" -> <<"2","2","1","2">> [] c = "3" -> <<"1","1","4","1">>
          [] c = "4" -> <<"2","3","1","1">> [] c = "5" -> <<"1","3","2","1">>
          [] c = "6" -> <<"4","1","1","1">> [] c = "7" -> <<"2","1","3","1">>
          [] c = "8" -> <<"3","1","2","1">> [] c = "9" -> <<"2","1","1","3">>]

\* A set's 'first' entry: the colour of its first bar.
FirstColor(set) == IF set = "C" THEN black ELSE white

\* The run lengths of a set: C_lengths is a copy of A_lengths.
Lengths(set) == IF set = "B" THEN B_lengths ELSE A_lengths

\* The inner loop of _lengths_to_code: seq += color * int(l), then
\* color = color.flip, for each l of lens.
RECURSIVE RunsToCode(_, _)
RunsToCode(lens, color) ==
    IF lens = << >> THEN << >>
    ELSE Repeat(color[1], IntOf(lens[1])) \o RunsToCode(Tail(lens), flip(color))

\* The colour _lengths_to_code starts a digit's entry with: `color` is not
\* reset between entries, and each of the IntOf(d) entries before it has
\* flipped it once per run.
StartColor(set, d) ==
    LET flips == 4 * IntOf(d)
    IN  IF flips % 2 = 0 THEN FirstColor(set) ELSE flip(FirstColor(set))

\* EAN13Data.guards, with the one-letter shortcuts.
guards == [k \in {"normal", "central", "n", "c"} |->
              IF k \in {"normal", "n"} THEN <<"1","0","1">>
                                       ELSE <<"0","1","0","1","0">>]

\* _lengths_to_code(A_lengths), (B_lengths), (C_lengths): the tables of
\* codes, built once with the class.
lengths_to_code ==
    [set \in {"A", "B", "C"} |->
        [d \in Chars(Decimal) |-> RunsToCode(Lengths(set)[d], StartColor(set, d))]]

\* EAN13Data.elements[symbol] for a guard, EAN13Data.elements[symbol][d]
\* for a digit of set A, B or C.
elements(symbol, d) ==
    IF symbol \in {"n", "c"} THEN guards[symbol] ELSE lengths_to_code[symbol][d]

\* EAN13Data.structure, as first written: the sets of digits 2 to 7.
Parity ==
    [c \in Chars(Decimal) |->
        CASE c = "0" -> <<"A","A","A","A","A","A">> [] c = "1" -> <<"A","A","B","A","B","B">>
          [] c = "2" -> <<"A","A","B","B","A","B">> [] c = "3" -> <<"A","A","B","B","B","A">>
          [] c = "4" -> <<"A","B","A","A","B","B">> [] c = "5" -> <<"A","B","B","A","A","B">>
          [] c = "6" -> <<"A","B","B","B","A","A">> [] c = "7" -> <<"A","B","A","B","A","B">>
          [] c = "8" -> <<"A","B","A","B","B","A">> [] c = "9" -> <<"A","B","B","A","B","A">>]

\* A template that loses its closing guard.
StructureUnclosed(first) ==
    <<"n">> \o Parity[first] \o <<"c","C","C","C","C","C","C">>

\* EAN13Data.structure: 'n{}cCCCCCCn'.format(v)
structure(first) ==
    <<"n">> \o Parity[first] \o <<"c","C","C","C","C","C","C","n">>

\* EAN13Data.n_bars
n_bars == 2 * Len(elements("n", "0")) + Len(elements("c", "0"))
          + 6 * Len(elements("A", "0")) + 6 * Len(elements("C", "0"))

-----------------------------------------------------------------------------
(* EAN13: the constructor. *)

\* No padding at all.
NoFill(s, width) == s

\* str.zfill(width): zeros on the left, after a leading sign.
zfill(s, width) ==
    IF Len(s) >= width THEN s
    ELSE IF Len(s) > 0 /\ s[1] \in {"+", "-"}
         THEN <<s[1]>> \o Repeat("0", width - Len(s)) \o Tail(s)
         ELSE Repeat("0", width - Len(s)) \o s

\* sum() of the integers of a sequence.
RECURSIVE Sum(_)
Sum(xs) == IF xs = << >> THEN 0 ELSE xs[1] + Sum(Tail(xs))

\* The weights on the wrong halves.
WeightedSwapped(odds, evens) == 3 * Sum(odds) + Sum(evens)

\* 3 * sum(evens) + sum(odds)
Weighted(odds, evens) == 3 * Sum(evens) + Sum(odds)

\* A checksum without the last `% 10`: str(10) where the sum is a multiple
\* of ten.
ChecksumUnwrapped(weighted) ==
    IF weighted % 10 = 0 THEN <<"1", "0">> ELSE StrOf(10 - (weighted % 10))

\* The last two lines of _compute_checksum: 10 - (checksum % 10), then
\* str(checksum % 10).
ChecksumDigit(weighted) == StrOf((10 - (weighted % 10)) % 10)

\* EAN13._compute_checksum on self.id; int(c) raises ValueError on a
\* character that is no digit.
ComputeChecksum(id) ==
    LET head == SubSeq(id, 1, IF Len(id) < 12 THEN Len(id) ELSE 12)
    IN  IF \E i \in 1..Len(head) : ~IsDigit(head[i])
        THEN [ok |-> FALSE, error |-> "ValueError"]
        ELSE LET ints  == [i \in 1..Len(head) |-> IntOf(head[i])]
                 hln   == Len(ints) \div 2
                 odds  == [i \in 1..hln |-> ints[2 * (i - 1) + 1]]
                 evens == [i \in 1..hln |-> ints[2 * (i - 1) + 2]]
             IN  [ok |-> TRUE, cs |-> ChecksumDigit(Weighted(odds, evens))]

\* An _encode whose guards go into the code but not into the elements.
RECURSIVE EncodeLoopGuardless(_, _, _, _, _)
EncodeLoopGuardless(struct, k, digits, code, elts) ==
    IF k > Len(struct)
    THEN [ok |-> TRUE, code |-> code, elements |-> elts, digits |-> digits]
    ELSE IF struct[k] \in DOMAIN guards
         THEN EncodeLoopGuardless(struct, k + 1, digits,
                                  code \o elements(struct[k], "0"), elts)
         ELSE IF digits = << >> THEN [ok |-> FALSE, error |-> "IndexError"]
         ELSE IF ~IsDigit(digits[1]) THEN [ok |-> FALSE, error |-> "KeyError"]
         ELSE LET elt_cd == elements(struct[k], digits[1])
              IN  EncodeLoopGuardless(struct, k + 1, Tail(digits), code \o elt_cd,
                                      Append(elts, elt_cd))

\* The for-loop of _encode from the k-th symbol of the structure on, with
\* the digits not yet popped, the code and the elements so far.
\* digits.pop(0) raises IndexError on an empty list and the table lookup
\* raises KeyError on a character that is no digit.
RECURSIVE EncodeLoop(_, _, _, _, _)
EncodeLoop(struct, k, digits, code, elts) ==
    IF k > Len(struct)
    THEN [ok |-> TRUE, code |-> code, elements |-> elts, digits |-> digits]
    ELSE IF struct[k] \in DOMAIN guards
         THEN LET elt_cd == elements(struct[k], "0")
              IN  EncodeLoop(struct, k + 1, digits, code \o elt_cd, Append(elts, elt_cd))
         ELSE IF digits = << >> THEN [ok |-> FALSE, error |-> "IndexError"]
         ELSE IF ~IsDigit(digits[1]) THEN [ok |-> FALSE, error |-> "KeyError"]
         ELSE LET elt_cd == elements(struct[k], digits[1])
              IN  EncodeLoop(struct, k + 1, Tail(digits), code \o elt_cd,
                             Append(elts, elt_cd))

\* EAN13._encode on self.id.  `digits` is its local list as the loop leaves it.
Encode(id) ==
    IF id = << >> THEN [ok |-> FALSE, error |-> "IndexError"]
    ELSE IF ~IsDigit(id[1]) THEN [ok |-> FALSE, error |-> "KeyError"]
    ELSE LET r == EncodeLoop(structure(id[1]), 1, Tail(id), << >>, << >>)
         IN  IF ~r.ok THEN r
             ELSE [ok |-> TRUE, structure |-> structure(id[1]), code |-> r.code,
                   elements |-> r.elements, digits |-> r.digits]

\* `elif id[-1:] != cs`: whether a full-length id is turned down.
WrongLast(id, cs) == SubSeq(id, Len(id), Len(id)) # cs

\* EAN13.__init__(id), given str(id): the object's fields, or the error raised.
EAN13(s) ==
    LET id == zfill(s, length - 1)
        c  == ComputeChecksum(id)
    IN  IF ~c.ok THEN c
        ELSE IF Len(id) >= length /\ WrongLast(id, c.cs)
             THEN [ok |-> FALSE, error |-> "ValueError"]
             ELSE LET self_id == IF Len(id) < length THEN id \o c.cs ELSE id
                      enc == Encode(self_id)
                  IN  IF ~enc.ok THEN enc
                      ELSE [ok |-> TRUE, id |-> self_id, checksum |-> c.cs,
                            structure |-> enc.structure, code |-> enc.code,
                            elements |-> enc.elements, digits |-> enc.digits]

-----------------------------------------------------------------------------
(* EAN13.generate *)

\* A projection that strips the prefix but keeps the checksum digit.
ProjectedWithChecksum(pfx, db) ==
    {SubSeq(id, Len(pfx) + 1, Len(id)) : id \in {i \in db : SubSeq(i, 1, Len(pfx)) = pfx}}

\* The projection without its filter on the prefix.
ProjectedAnyPrefix(pfx, db) ==
    {SubSeq(id, Len(pfx) + 1, Len(id) - 1) : id \in db}

\* [ean.id[pl:-1] for ean in database if ean.id[:pl] == prefix]
Projected(pfx, db) ==
    {SubSeq(id, Len(pfx) + 1, Len(id) - 1) : id \in {i \in db : SubSeq(i, 1, Len(pfx)) = pfx}}

\* to_draw = EAN13Data.length - 1 - pl
ToDraw(pfx) == length - 1 - Len(pfx)

\* `while rand in database: rand = next(loop)`, with `raise` on StopIteration.
RECURSIVE GenerateLoop(_, _, _)
GenerateLoop(rand, loop, db) ==
    IF rand \notin db
    THEN [ok |-> TRUE, rand |-> rand]
    ELSE LET r == LoopRoundNext(loop, Decimal)
         IN  IF r.stopped
             THEN [ok |-> FALSE, error |-> "Database is full!"]
             ELSE GenerateLoop(r.val, r.gen, db)

\* EAN13.generate(prefix, database) when rd.randint draws rand: the object
\* returned, or the error raised.
Generate(pfx, db, rand) ==
    LET w == GenerateLoop(rand, loop_round(rand, << >>, FALSE), Projected(pfx, db))
    IN  IF ~w.ok THEN w
        ELSE LET e == EAN13(pfx \o w.rand)
             IN  IF e.ok THEN [ok |-> TRUE, ean |-> e] ELSE e

-----------------------------------------------------------------------------
(* The walks that are checked. *)

\* The longest start string over the small alphabets.
MaxLen == 3

\* The small alphabets (the doctests' 'abc' and its prefixes).
Alphabets == {<<"a">>, <<"a", "b">>, <<"a", "b", "c">>}

\* Decimal walks are checked for one and two digits.
DecimalLens == {1, 2}

\* The stops tried on two-digit decimal walks ('13' is the doctest's).
DecimalStops == {<<"1", "3">>, <<"0", "0">>, <<"9", "9">>, <<"8", "9">>}

\* The stops tried from a start over a small alphabet: every string of the
\* start's length when that is at most 2, and for longer starts the strings
\* that differ from the start in at most one place.
StopsFor(a, s) ==
    {t \in StringsOf(a, Len(s)) :
        Len(s) <= 2 \/ Cardinality({i \in 1..Len(s) : t[i] # s[i]}) <= 1}

\* The arguments of loop_round: an alphabet, a start over it, a stop of the
\* same length over it or none, include_last.
LoopInputs ==
    UNION {
        UNION {
            { [digits |-> a, start |-> s, stop |-> t, last |-> b] :
                t \in StopsFor(a, s) \cup {<< >>},
                b \in BOOLEAN } : s \in StringsOf(a, n) } :
        a \in Alphabets, n \in 1..MaxLen }
    \cup UNION {
        { [digits |-> Decimal, start |-> s, stop |-> t, last |-> b] :
            s \in StringsOf(Decimal, n),
            t \in (IF n = 1 THEN StringsOf(Decimal, 1) ELSE DecimalStops) \cup {<< >>},
            b \in BOOLEAN } : n \in DecimalLens }

\* The other operations' variables while one operation is checked.
IdleLoop == /\ lr_digits = << >> /\ lr_start = << >> /\ lr_stop = << >>
            /\ lr_last = FALSE /\ lr = NoGen /\ out = << >> /\ lpc = "idle"
IdleEan  == input = << >> /\ ean = [ok |-> FALSE, error |-> "none"] /\ epc = "idle"
IdleGen  == /\ prefix = << >> /\ database = {} /\ draw = << >>
            /\ result = [ok |-> FALSE, error |-> "none"] /\ gpc = "idle"
IdleStep == /\ ls_digits = << >> /\ ls_start = << >> /\ ls = NoGen
            /\ ls_n = 0 /\ ls_val = << >>
IdleBatch == db0 = {} /\ issued = << >>

\* for i in loop_round(start, digits, stop, include_last): out.append(i)
InitLoop ==
    /\ \E a \in LoopInputs :
        /\ lr_digits = a.digits
        /\ lr_start = a.start
        /\ lr_stop = a.stop
        /\ lr_last = a.last
        /\ lr = loop_round(a.start, a.stop, a.last)
    /\ out = << >>
    /\ lpc = "iter"
    /\ IdleEan
    /\ IdleGen
    /\ IdleStep
    /\ IdleBatch

\* next(loop) yields a value: the body of the for-loop runs on it.
LoopRoundYield ==
    /\ lpc = "iter"
    /\ LET r == LoopRoundNext(lr, lr_digits)
       IN  /\ ~r.stopped
           /\ lr' = r.gen
           /\ out' = Append(out, r.val)
    /\ UNCHANGED <<lr_digits, lr_start, lr_stop, lr_last, lpc, eanVars, genVars, stepVars, batchVars>>

\* next(loop) raises StopIteration: the for-loop ends.
LoopRoundStop ==
    /\ lpc = "iter"
    /\ LET r == LoopRoundNext(lr, lr_digits)
       IN  /\ r.stopped
           /\ lr' = r.gen
    /\ lpc' = "done"
    /\ UNCHANGED <<lr_digits, lr_start, lr_stop, lr_last, out, eanVars, genVars, stepVars, batchVars>>

NextLoop == LoopRoundYield \/ LoopRoundStop

SpecLoop == InitLoop /\ [][NextLoop]_vars

-----------------------------------------------------------------------------
(* The odometer, stated on its own: what the walks are compared with. *)

\* The place of character c in the alphabet.
IndexOf(c, digits) == CHOOSE i \in 1..Len(digits) : digits[i] = c

\* The largest member of a non-empty set of integers.
MaxOf(S) == CHOOSE m \in S : \A x \in S : x <= m

\* The odometer successor of s: the rightmost character that is not the
\* alphabet's last moves one place on and everything to its right becomes the
\* alphabet's first; all-last wraps to all-first.
OdoSucc(s, digits) ==
    LET movable == {i \in 1..Len(s) : s[i] # digits[Len(digits)]}
    IN  IF movable = {}
        THEN [i \in 1..Len(s) |-> digits[1]]
        ELSE LET k == MaxOf(movable)
             IN  [i \in 1..Len(s) |->
                    IF i < k THEN s[i]
                    ELSE IF i = k THEN digits[IndexOf(s[i], digits) + 1]
                    ELSE digits[1]]

\* The stop loop_round works with: the argument, or start by default.
EffStop == IF lr_stop = << >> THEN lr_start ELSE lr_stop

\* out without the stop that include_last appends.
Walked == IF lr_last /\ lpc = "done" THEN SubSeq(out, 1, Len(out) - 1) ELSE out

\* C3: loop_round(start, digits, stop, include_last) yields start first and
\* then, step by step, the odometer successor of what it yielded before; it
\* yields at most b^L strings (one more with include_last), so it ends; it
\* ends just before the first recurrence of stop, or with include_last just
\* after yielding it; and when stop is start it has then yielded every
\* string of length L exactly once.
LoopRoundIsOdometerWalk ==
    lpc \in {"iter", "done"} =>
        LET n == Len(out)
            all == StringsOf(lr_digits, Len(lr_start))
        IN  /\ n >= 1 => out[1] = lr_start
            /\ \A i \in 2..n : out[i] = OdoSucc(out[i - 1], lr_digits)
            /\ \A i \in 2..n : out[i] = EffStop => i = n /\ lr_last
            /\ n <= Cardinality(all) + (IF lr_last THEN 1 ELSE 0)
            /\ (lpc = "iter" /\ n >= 2 /\ out[n] = EffStop) =>
                    LoopRoundNext(lr, lr_digits).stopped
            /\ lpc = "done" =>
                /\ n >= 1
                /\ IF lr_last THEN n >= 2 /\ out[n] = EffStop
                              ELSE OdoSucc(out[n], lr_digits) = EffStop
                /\ EffStop = lr_start =>
                    /\ Len(Walked) = Cardinality(all)
                    /\ {Walked[i] : i \in 1..Len(Walked)} = all

\* The doctest's walk from 'ba' over 'abc' has ended with its nine strings.
LoopRoundWalkedFromBa ==
    /\ lpc = "done"
    /\ lr_digits = <<"a", "b", "c">>
    /\ lr_stop = << >>
    /\ ~lr_last
    /\ out = << <<"b","a">>, <<"b","b">>, <<"b","c">>, <<"c","a">>, <<"c","b">>,
                <<"c","c">>, <<"a","a">>, <<"a","b">>, <<"a","c">> >>

-----------------------------------------------------------------------------
(* The identifiers that are constructed. *)

\* The most characters an argument has beyond a 12-digit payload.
MaxExtra == 2

\* The doctests' payloads.
Payload041 == <<"0","4","1","2","5","9","8","6","3","0","1","3">>
Payload978 == <<"9","7","8","2","9","4","0","1","9","9","6","1">>

\* The payloads: the doctests' and each of them with one digit changed.
Payloads ==
    {[p EXCEPT ![i] = d] : p \in {Payload041, Payload978}, i \in 1..12, d \in Chars(Decimal)}

\* What may follow a payload: any digit or an x first, then 0, 3, 7 or x.
RECURSIVE Extras(_)
Extras(n) ==
    IF n = 0 THEN {<< >>}
    ELSE IF n = 1 THEN {<<c>> : c \in Chars(Decimal) \cup {"x"}}
    ELSE {Append(t, c) : t \in Extras(n - 1), c \in {"0", "3", "7", "x"}}

\* Arguments shorter than 12 characters: the ends of the doctests' payloads,
\* the spec's '12345', a negative number, the empty string.
ShortInputs ==
    {SubSeq(p, k, 12) : p \in {Payload041, Payload978}, k \in 2..12}
    \cup {<<"1","2","3","4","5">>, <<"-","5">>, <<"x">>, << >>}

\* str(id) of the arguments the constructor is given.
EanInputs ==
    UNION {{p \o t : p \in Payloads, t \in Extras(n)} : n \in 0..MaxExtra}
    \cup ShortInputs

InitEan ==
    /\ input \in EanInputs
    /\ ean = [ok |-> FALSE, error |-> "none"]
    /\ epc = "call"
    /\ IdleLoop
    /\ IdleGen
    /\ IdleStep
    /\ IdleBatch

\* EAN13(id) returns the object.
NewReturns ==
    /\ epc = "call"
    /\ EAN13(input).ok
    /\ ean' = EAN13(input)
    /\ epc' = "done"
    /\ UNCHANGED <<input, loopVars, genVars, stepVars, batchVars>>

\* EAN13(id) raises.
NewRaises ==
    /\ epc = "call"
    /\ ~EAN13(input).ok
    /\ ean' = EAN13(input)
    /\ epc' = "done"
    /\ UNCHANGED <<input, loopVars, genVars, stepVars, batchVars>>

NextEan == NewReturns \/ NewRaises

SpecEan == InitEan /\ [][NextEan]_vars

-----------------------------------------------------------------------------
(* The constructor's claims. *)

AllDigits(t) == \A i \in 1..Len(t) : IsDigit(t[i])

\* The argument with zeros on its left up to 12 characters.
Padded == IF Len(input) < 12 THEN Repeat("0", 12 - Len(input)) \o input ELSE input

\* The EAN-13 check digit of twelve digits, by its formula: three times the
\* digits at the 0-based places 1, 3, .., 11 plus the digits at the places
\* 0, 2, .., 10, taken from ten modulo ten.
CheckDigit(t) ==
    LET v(i) == IntOf(t[i + 1])
        odd  == v(1) + v(3) + v(5) + v(7) + v(9) + v(11)
        even == v(0) + v(2) + v(4) + v(6) + v(8) + v(10)
    IN  (10 - ((3 * odd + even) % 10)) % 10

\* C4: from an argument that is 12 digits once padded, the identifier is
\* those 12 digits and their check digit; a 13-digit argument is accepted
\* exactly when its 13th digit is the check digit of its first 12, and is
\* then the identifier; the check digit is one digit, 0 to 9.
IdentifierCarriesItsChecksum ==
    (epc = "done" /\ AllDigits(Padded) /\ Len(Padded) \in {12, 13}) =>
        LET cd == CheckDigit(SubSeq(Padded, 1, 12))
        IN  /\ cd \in 0..9
            /\ Len(Padded) = 12 => ean.ok
            /\ Len(Padded) = 13 => (ean.ok <=> IntOf(Padded[13]) = cd)
            /\ ean.ok =>
                /\ Len(ean.id) = 13
                /\ AllDigits(ean.id)
                /\ SubSeq(ean.id, 1, 12) = SubSeq(Padded, 1, 12)
                /\ IntOf(ean.id[13]) = cd
                /\ ean.checksum = <<ean.id[13]>>
            /\ ~ean.ok => ean.error = "ValueError"

\* The doctest's 9782940199617 was given with its check digit and accepted.
Accepted9782940199617 ==
    /\ epc = "done"
    /\ input = Payload978 \o <<"7">>
    /\ ean.ok
    /\ ean.id = input

\* C5, as claimed: the constructor raises on every argument that is neither
\* 12 nor 13 characters long once padded, and on every argument with a
\* character that is no digit.
MalformedIsRefused ==
    (epc = "done" /\ (Len(Padded) \notin {12, 13} \/ ~AllDigits(input))) => ~ean.ok

\* C6, as claimed: both '12345' and '9782940199618' are refused.
ShortAndWrongChecksumRefused ==
    (epc = "done" /\ input \in {<<"1","2","3","4","5">>, Payload978 \o <<"8">>}) => ~ean.ok

\* C6, amended: '12345' is padded to 000000012345 and accepted, as
\* 0000000123457; '9782940199618', whose check digit is wrong, raises
\* ValueError.
ShortPaddedWrongChecksumRefused ==
    epc = "done" =>
        /\ input = <<"1","2","3","4","5">> =>
              /\ ean.ok
              /\ ean.id = <<"0","0","0","0","0","0","0","1","2","3","4","5","7">>
        /\ input = Payload978 \o <<"8">> => (~ean.ok /\ ean.error = "ValueError")

\* '12345' was given and an identifier built from it.
Built12345 == epc = "done" /\ input = <<"1","2","3","4","5">> /\ ean.ok

\* The concatenation of a list of codes.
RECURSIVE Concat(_)
Concat(cs) == IF cs = << >> THEN << >> ELSE cs[1] \o Concat(Tail(cs))

\* The object holds a valid 13-digit identifier.
ValidIdentifier == epc = "done" /\ ean.ok /\ Len(ean.id) = 13

\* C7: for a valid 13-digit identifier the elements, concatenated in order,
\* are the code, and the code has 95 bars, which is EAN13Data.n_bars.
ElementsMakeTheCode ==
    ValidIdentifier =>
        /\ Concat(ean.elements) = ean.code
        /\ Len(ean.code) = 95
        /\ n_bars = 95

\* The doctest's 9782940199617 is encoded, and its first element is a guard.
Encoded9782940199617 ==
    /\ ValidIdentifier
    /\ ean.id = Payload978 \o <<"7">>
    /\ ean.elements[1] = <<"1","0","1">>
    /\ ean.code # << >>

\* How many of the first k symbols of a template stand for a digit.
DigitSymbols(struct, k) == Cardinality({j \in 1..k : struct[j] \in {"A", "B", "C"}})

\* The elements follow the template: a guard where it names one, and where
\* it names a set the element of the next digit after the leading one, every
\* such digit being read once and none being left.
ElementsFollowTemplate ==
    /\ Len(ean.structure) = Len(ean.elements)
    /\ \A k \in 1..Len(ean.elements) :
          ean.elements[k] =
              IF ean.structure[k] \in {"n", "c"}
              THEN guards[ean.structure[k]]
              ELSE elements(ean.structure[k], ean.id[1 + DigitSymbols(ean.structure, k)])
    /\ Cardinality({k \in 1..Len(ean.structure) : ean.structure[k] = "n"}) = 2
    /\ Cardinality({k \in 1..Len(ean.structure) : ean.structure[k] = "c"}) = 1
    /\ DigitSymbols(ean.structure, Len(ean.structure)) = 12
    /\ ean.digits = << >>

\* C8, as claimed: 14 elements.
FourteenElements ==
    ValidIdentifier => (Len(ean.elements) = 14 /\ ElementsFollowTemplate)

\* C8, amended: encoding a valid identifier emits 15 elements in template
\* order (2 normal guards, 1 central guard, 12 digit elements) and reads
\* every digit after the leading one once, left to right, leaving none.
FifteenElements ==
    ValidIdentifier => (Len(ean.elements) = 15 /\ ElementsFollowTemplate)

\* The doctest's payload 041259863013 is encoded into its elements.
Encoded041259863013 ==
    /\ ValidIdentifier
    /\ input = Payload041
    /\ Len(ean.elements) > 0
    /\ ean.digits = << >>

Payload041x1 == [Payload041 EXCEPT ![12] = "1"]

\* C9, as claimed: the checksum of 041259863011 is '0' and that of
\* 978294019961 is '7'.
ChecksumExamplesAsClaimed ==
    epc = "done" =>
        /\ input = Payload041x1 => (ean.ok /\ ean.checksum = <<"0">>)
        /\ input = Payload978 => (ean.ok /\ ean.checksum = <<"7">>)

\* C9, amended: the checksum of 041259863011 is '6' (it is the doctest's
\* payload 041259863013 whose checksum is '0'), and that of 978294019961
\* is '7'.
ChecksumExamples ==
    epc = "done" =>
        /\ input = Payload041x1 => (ean.ok /\ ean.checksum = <<"6">>)
        /\ input = Payload041 => (ean.ok /\ ean.checksum = <<"0">>)
        /\ input = Payload978 => (ean.ok /\ ean.checksum = <<"7">>)

\* The checksum of 041259863011 was computed.
Checksum041259863011 ==
    epc = "done" /\ input = Payload041x1 /\ ean.ok /\ ean.checksum = <<"6">>

-----------------------------------------------------------------------------
(* The generations that are checked. *)

\* The most suffixes a nearly full two-digit database leaves free.
MaxHoles == 2

\* The most suffixes a nearly empty two-digit database holds.
MaxUsed == 2

\* The doctest's 11-digit prefix, and its first ten digits.
Prefix11 == <<"0","4","1","2","5","9","8","6","3","0","1">>
Prefix10 == <<"0","4","1","2","5","9","8","6","3","0">>

\* The identifier EAN13(payload) of a 12-digit payload.
IdOf(payload) == EAN13(payload).id

\* Identifiers that do not start with Prefix11: two of the doctest's
\* database, and one that shares the first ten digits.
Foreign ==
    {IdOf(<<"7","5","3","6","9","8","4","5","6","2","1","8">>),
     IdOf(<<"0","2","6","5","3","0","1","4","8","9","5","0">>),
     IdOf(Prefix10 \o <<"2","3">>)}

\* The two-digit suffixes that nearly full and nearly empty databases differ on.
Marked ==
    {<<"0","0">>, <<"0","9">>, <<"1","0">>, <<"5","5">>, <<"9","9">>}

\* The sets of suffixes a database holds under a prefix: for one digit every
\* set; for two digits every set of at most MaxUsed marked suffixes and every
\* set that lacks at most MaxHoles marked suffixes.
UsedSets(pfx) ==
    IF ToDraw(pfx) = 1
    THEN SUBSET StringsOf(Decimal, 1)
    ELSE {u \in SUBSET Marked : Cardinality(u) <= MaxUsed}
         \cup {StringsOf(Decimal, 2) \ h : h \in {x \in SUBSET Marked : Cardinality(x) <= MaxHoles}}

\* generate(prefix, database): the arguments.
InitGen ==
    /\ prefix \in {Prefix11, Prefix10}
    /\ \E u \in UsedSets(prefix), f \in {{}, Foreign} :
          database = {IdOf(prefix \o t) : t \in u} \cup f
    /\ draw = << >>
    /\ result = [ok |-> FALSE, error |-> "none"]
    /\ gpc = "call"
    /\ IdleLoop
    /\ IdleEan
    /\ IdleStep
    /\ IdleBatch

\* generate(prefix, database) runs: it draws its digits, and returns an
\* identifier or raises.
GenerateCall ==
    /\ gpc = "call"
    /\ \E d \in StringsOf(Decimal, ToDraw(prefix)) :
          LET r == Generate(prefix, database, d)
          IN  /\ draw' = d
              /\ result' = r
              /\ \/ r.ok /\ gpc' = "returned"
                 \/ ~r.ok /\ gpc' = "raised"
    /\ UNCHANGED <<prefix, database, loopVars, eanVars, stepVars, batchVars>>

NextGen == GenerateCall

SpecGen == InitGen /\ [][NextGen]_vars

-----------------------------------------------------------------------------
(* The generator's claims. *)

\* Every suffix the prefix leaves open.
Suffixes == StringsOf(Decimal, 12 - Len(prefix))

\* The suffixes occupied by an identifier of the database: the prefix, the
\* suffix and a check digit.
Occupied ==
    {t \in Suffixes : \E c \in Chars(Decimal) : (prefix \o t \o <<c>>) \in database}

\* The suffix of the identifier returned.
Returned == SubSeq(result.ean.id, Len(prefix) + 1, 12)

\* C1: an identifier that generate returns starts with the prefix and is
\* none of the database's.
GeneratedIsFresh ==
    (gpc = "returned") =>
        /\ Len(result.ean.id) = 13
        /\ SubSeq(result.ean.id, 1, Len(prefix)) = prefix
        /\ result.ean.id \notin database

\* generate returned although the suffix it drew was taken.
ReturnedAfterCollision ==
    /\ gpc = "returned"
    /\ draw \in Occupied
    /\ Foreign \subseteq database

\* C2: generate raises 'Database is full!' exactly when every suffix of the
\* prefix is occupied, and returns an identifier otherwise, whatever it drew.
FullExactlyWhenAllOccupied ==
    gpc \in {"returned", "raised"} =>
        /\ gpc = "raised" <=> Occupied = Suffixes
        /\ gpc = "raised" <=> ~result.ok
        /\ ~result.ok => result.error = "Database is full!"
        /\ Cardinality(Suffixes) = 10 ^ (12 - Len(prefix))

\* generate raised on a database holding all hundred suffixes of a prefix.
RaisedOnFullHundred ==
    /\ gpc = "raised"
    /\ prefix = Prefix10
    /\ Cardinality(Occupied) = 100

\* The number a digit string writes.
RECURSIVE ValueOf(_)
ValueOf(t) ==
    IF t = << >> THEN 0
    ELSE 10 * ValueOf(SubSeq(t, 1, Len(t) - 1)) + IntOf(t[Len(t)])

\* How many odometer steps lead from the draw to t, cyclically.
StepsFromDraw(t) == (ValueOf(t) - ValueOf(draw)) % Cardinality(Suffixes)

\* C10: the suffix returned is the first free one in cyclic odometer order
\* from the draw, the draw included: it is free and every suffix fewer steps
\* away from the draw is occupied.
GeneratedIsFirstFree ==
    (gpc = "returned") =>
        LET occupied == Occupied
            steps == StepsFromDraw(Returned)
        IN  /\ Returned \in Suffixes \ occupied
            /\ \A t \in Suffixes : StepsFromDraw(t) < steps => t \in occupied
            /\ draw \notin occupied => Returned = draw

\* generate walked past 99 to a free suffix below the draw.
ReturnedAfterWrap ==
    /\ gpc = "returned"
    /\ prefix = Prefix10
    /\ ValueOf(Returned) < ValueOf(draw)
    /\ StepsFromDraw(Returned) > 10

-----------------------------------------------------------------------------
(* loopstep on its own: a consumer that keeps calling next(g). *)

\* How many full cycles of the strings the consumer takes (and one value more).
MaxCycles == 2

\* The arguments of loopstep: an alphabet and a start over it.
StepInputs ==
    UNION {{[digits |-> a, start |-> t] : t \in StringsOf(a, n)} :
              a \in Alphabets, n \in 1..MaxLen}
    \cup UNION {{[digits |-> Decimal, start |-> t] : t \in StringsOf(Decimal, n)} :
              n \in DecimalLens}

\* g = loopstep(start, digits)
InitStep ==
    /\ \E a \in StepInputs :
        /\ ls_digits = a.digits
        /\ ls_start = a.start
        /\ ls = loopstep(a.start)
    /\ ls_n = 0
    /\ ls_val = << >>
    /\ IdleLoop
    /\ IdleEan
    /\ IdleGen
    /\ IdleBatch

\* next(g): loopstep yields its next value.  The consumer stops asking after
\* MaxCycles cycles; the generator has no end of its own.
LoopstepYield ==
    /\ ls # NoGen
    /\ ls_n <= MaxCycles * Cardinality(StringsOf(ls_digits, Len(ls_start)))
    /\ LET r == LoopstepNext(ls, ls_digits)
       IN  /\ ls' = r.gen
           /\ ls_val' = r.val
    /\ ls_n' = ls_n + 1
    /\ UNCHANGED <<ls_digits, ls_start, loopVars, eanVars, genVars, batchVars>>

NextStep == LoopstepYield

SpecStep == InitStep /\ [][NextStep]_vars

\* The number a string writes in the alphabet's base, leftmost place highest.
RECURSIVE ValueIn(_, _)
ValueIn(t, digits) ==
    IF t = << >> THEN 0
    ELSE Len(digits) * ValueIn(SubSeq(t, 1, Len(t) - 1), digits)
         + IndexOf(t[Len(t)], digits) - 1

\* The string of n characters that writes v in the alphabet's base.
RECURSIVE StringOf(_, _, _)
StringOf(v, n, digits) ==
    IF n = 0 THEN << >>
    ELSE Append(StringOf(v \div Len(digits), n - 1, digits), digits[(v % Len(digits)) + 1])

\* C11: the n-th value of loopstep(start, digits), n >= 0, is the string of
\* start's length whose value is (value(start) + n) mod b^L, through every
\* wrap; so a completed cycle of a suffix moves the digit on its left one
\* step, the suffix restarts from all-first, the values repeat with period
\* b^L, and as long as it is asked the generator yields again.
LoopstepCountsFromStart ==
    (ls # NoGen) =>
        LET b == Len(ls_digits)
            L == Len(ls_start)
        IN  /\ ls_n >= 1 =>
                  /\ ls_val = StringOf((ValueIn(ls_start, ls_digits) + ls_n - 1) % (b ^ L),
                                       L, ls_digits)
                  /\ OdoSucc(ls_val, ls_digits) = LoopstepNext(ls, ls_digits).val
               \* the period
            /\ ls_n > b ^ L =>
                  ls_val = StringOf((ValueIn(ls_start, ls_digits) + ls_n - 1 - b ^ L) % (b ^ L),
                                    L, ls_digits)
            /\ ls_n = 0 => LoopstepNext(ls, ls_digits).val = ls_start

\* The doctest's loopstep('bcc', 'abc') is back on 'bcc' a second time, two
\* full cycles after its first value.
LoopstepTwiceAround ==
    /\ ls_digits = <<"a", "b", "c">>
    /\ ls_start = <<"b", "c", "c">>
    /\ ls_n = 55
    /\ ls_val = <<"b", "c", "c">>

-----------------------------------------------------------------------------
(* A caller that draws identifiers one after the other: it calls
   generate(prefix, database) and inserts what it got before the next call. *)

\* The two-digit suffixes a caller's nearly full database may lack.
BatchMarked ==
    {<<"0","9">>, <<"1","0">>, <<"9","9">>}

\* The sets of suffixes the caller's database starts with: every set lacking
\* at most MaxHoles suffixes (marked ones, for two digits), and for one digit
\* the empty set.
BatchSets(pfx) ==
    IF ToDraw(pfx) = 1
    THEN {StringsOf(Decimal, 1) \ h :
             h \in {x \in SUBSET StringsOf(Decimal, 1) : Cardinality(x) <= MaxHoles}}
         \cup {{}}
    ELSE {StringsOf(Decimal, 2) \ h : h \in {x \in SUBSET BatchMarked : Cardinality(x) <= MaxHoles}}

\* The caller's database before its first call.
InitBatch ==
    /\ prefix \in {Prefix11, Prefix10}
    /\ \E u \in BatchSets(prefix), f \in {{}, Foreign} :
          database = {IdOf(prefix \o t) : t \in u} \cup f
    /\ db0 = database
    /\ issued = << >>
    /\ draw = << >>
    /\ result = [ok |-> FALSE, error |-> "none"]
    /\ gpc = "call"
    /\ IdleLoop
    /\ IdleEan
    /\ IdleStep

\* generate(prefix, database) runs on the caller's database, which it only
\* reads: the list it filters is a new one.  The caller makes at most
\* MaxHoles + 1 calls.
BatchGenerate ==
    /\ gpc = "call"
    /\ Len(issued) <= MaxHoles
    /\ \E d \in StringsOf(Decimal, ToDraw(prefix)) :
          LET r == Generate(prefix, database, d)
          IN  /\ draw' = d
              /\ result' = r
              /\ \/ r.ok /\ gpc' = "returned"
                 \/ ~r.ok /\ gpc' = "raised"
    /\ UNCHANGED <<prefix, database, db0, issued, loopVars, eanVars, stepVars>>

\* The caller inserts the identifier it got into its database.
BatchInsert ==
    /\ gpc = "returned"
    /\ Len(issued) <= MaxHoles
    /\ database' = database \cup {result.ean.id}
    /\ issued' = Append(issued, result.ean.id)
    /\ draw' = << >>
    /\ gpc' = "call"
    /\ UNCHANGED <<prefix, result, db0, loopVars, eanVars, stepVars>>

NextBatch == BatchGenerate \/ BatchInsert

SpecBatch == InitBatch /\ [][NextBatch]_vars

\* C12: through any run of calls and insertions, the identifiers returned are
\* all different and none is of the first database; a call returns while some
\* suffix of the prefix is free and raises once none is; and the database
\* holds what the caller put in it and nothing else.
BatchIssuesDistinctUntilFull ==
    (issued # << >> \/ gpc \in {"returned", "raised"}) =>
        /\ \A i, j \in 1..Len(issued) : issued[i] = issued[j] => i = j
        /\ \A i \in 1..Len(issued) :
              /\ issued[i] \notin db0
              /\ SubSeq(issued[i], 1, Len(prefix)) = prefix
        /\ database = db0 \cup {issued[i] : i \in 1..Len(issued)}
        /\ gpc = "returned" =>
              /\ result.ok
              /\ result.ean.id \notin database
              /\ Cardinality(Occupied) < 10 ^ (12 - Len(prefix))
        /\ gpc = "raised" =>
              /\ ~result.ok
              /\ result.error = "Database is full!"
              /\ Cardinality(Occupied) = 10 ^ (12 - Len(prefix))

\* The caller filled the last two free suffixes of a two-digit prefix, and its
\* third call raised.
RaisedAfterFillingTwo ==
    /\ gpc = "raised"
    /\ prefix = Prefix10
    /\ Len(issued) = 2
    /\ Foreign \subseteq db0

-----------------------------------------------------------------------------
(* The three single calls together: one of loop_round, EAN13 and generate is
   called and runs.  The consumer of loopstep and the caller that fills its
   database have their own specifications, SpecStep and SpecBatch. *)

Init == InitLoop \/ InitEan \/ InitGen

Next == NextLoop \/ NextEan \/ NextGen

Spec == Init /\ [][Next]_vars

====
